---- MODULE Spec2Model ----
(***************************************************************************)
(* Model of the agent orchestration core of agents/: the registry of       *)
(* running and completed agents kept by mcp_server.py, the streaming       *)
(* collector _spawn_codex_stream_internal, the event decoder               *)
(* parse_codex_event and the reducer inside spawn_codex.                   *)
(***************************************************************************)
EXTENDS Integers, Sequences, FiniteSets, TLC

VARIABLES
    running_agents,     \* mcp_server.running_agents: dict, kept in insertion order
    completed_agents,   \* mcp_server.completed_agents: dict, kept in insertion order
    background_results, \* mcp_server.background_results
    threads,            \* the background threads started so far, in start order
    ctl,                \* position of the control loop inside handle_get_result
    response,           \* the last response the control surface returned
    listing,            \* handle_list_running: its iterator and the lists it builds
    lines_in,           \* the lines handed to parse_codex_event so far
    decoded,            \* what parse_codex_event did with each of them
    response_text,      \* the document last handed to parse_claude_response
    claude_result,      \* what parse_claude_response made of it
    timeout_choice,     \* the arguments of a spawn request and the timeout chosen for them
    events,             \* spawn_codex: the events collected from the stream
    agent_result,       \* spawn_codex: the AgentResult reduced from them
    claude_call,        \* spawn_claude: position, arguments and locals of one call
    cpc,                \* _spawn_codex_stream_internal: position of the generator
    proc,               \* the process it launched: none, running, exited or killed
    stdout_open,        \* whether the worker still holds its standard output open
    written,            \* the lines the worker has written to standard output
    read_pos,           \* how many of them the generator has read
    yielded,            \* the events yielded to the consumer so far
    now,                \* time elapsed since the call, in ticks
    wait_start,         \* the time at which proc.wait(timeout) was entered
    launched,           \* number of processes the call has launched
    stdin,              \* the pipe to the worker's standard input: none, open or closed
    exc,                \* the exception in flight inside the generator, or "none"
    caught              \* the exception a handler of the generator caught, or "none"

regVars == <<running_agents, completed_agents, background_results, threads, ctl, response,
             listing>>

\* What the stateless steps were handed and what they made of it.
decVars == <<lines_in, decoded, response_text, claude_result, timeout_choice>>

redVars == <<events, agent_result, claude_call>>

colVars == <<cpc, proc, stdout_open, written, read_pos, yielded, now, wait_start,
             launched, stdin, exc, caught>>

vars == <<regVars, decVars, redVars, colVars>>

-----------------------------------------------------------------------------
(* Bounds of the registry model.                                           *)

\* Number of spawn requests the control loop accepts in one behaviour.
MaxSpawns == 2

\* Values uuid.uuid4().hex[:8] can take: nothing in the handlers excludes a
\* value that was returned before.
SpawnIds == {"a1b2c3d4", "e5f6a7b8"}

-----------------------------------------------------------------------------
(* Python dicts, as sequences of records in insertion order. Every record  *)
(* stored by the server carries its key in the field spawn_id.             *)

Keys(d) == {d[i].spawn_id : i \in 1..Len(d)}

Has(d, k) == k \in Keys(d)

Get(d, k) == d[CHOOSE i \in 1..Len(d) : d[i].spawn_id = k]

\* d[k] = rec: an existing key keeps its place, a new key goes last.
Put(d, k, rec) ==
    IF Has(d, k)
    THEN [i \in 1..Len(d) |-> IF d[i].spawn_id = k THEN rec ELSE d[i]]
    ELSE Append(d, rec)

\* A deletion that empties the dict.
Del_Clear(d, k) == <<>>

\* del d[k]
Del(d, k) == SelectSeq(d, LAMBDA r : r.spawn_id # k)

-----------------------------------------------------------------------------
(* What the call of the spawn function does inside the worker thread.      *)

\* spawn_claude: the ways the call ends. subprocess.run enforces the
\* timeout, so a worker that hangs ends as "timed_out". The error "none" is
\* Python's None.
ClaudeOutcomes ==
    { [raised |-> FALSE, success |-> TRUE,  error |-> "none"],        \* parsed, type=result subtype=success
      [raised |-> FALSE, success |-> FALSE, error |-> "none"],        \* parsed, not a success, no result text
      [raised |-> FALSE, success |-> FALSE, error |-> "exit_code"],   \* non-zero exit, no output
      [raised |-> FALSE, success |-> FALSE, error |-> "timed_out"],   \* subprocess.TimeoutExpired
      [raised |-> TRUE,  success |-> FALSE, error |-> "exception"] }  \* raised outside spawn_claude's try

\* _spawn_codex(prompt=..., sandbox=..., ...): spawn_codex has no parameter
\* named sandbox, so the call raises TypeError before anything is launched.
CodexOutcomes ==
    { [raised |-> TRUE, success |-> FALSE, error |-> "TypeError"] }

NoResult == [raised |-> FALSE, success |-> FALSE, error |-> "unset"]

ModelOf(kind) == IF kind = "codex" THEN "codex" ELSE "sonnet"

-----------------------------------------------------------------------------
(* The control surface: spawn.                                             *)

\* handle_list_running: the iterator over running_agents (entries passed,
\* size of the dict when it was made), the keys appended to agents and the
\* keys of recent_completed. The two lists are part of the list response and
\* go when the next response replaces it.
NoListing == [pos |-> 0, size |-> 0, agents |-> <<>>, count |-> 0, recent |-> <<>>]

\* A handler that serves no spawn while a worker is executing.
HandleSpawn_Blocking(kind, id) ==
    /\ ctl.pc = "idle"
    /\ Len(threads) < MaxSpawns
    /\ \A u \in 1..Len(threads) : threads[u].pc = "done"
    /\ running_agents' = Put(running_agents, id,
           [spawn_id |-> id, model |-> ModelOf(kind), status |-> "running"])
    /\ threads' = Append(threads,
           [spawn_id |-> id, kind |-> kind, pc |-> "run", result |-> NoResult])
    /\ response' = [kind |-> "spawned", spawn_id |-> id, status |-> "running"]
    /\ listing' = NoListing
    /\ UNCHANGED <<completed_agents, background_results, ctl, decVars, redVars, colVars>>

\* handle_spawn_claude / handle_spawn_codex: draw an id, register it as
\* running, start the background thread, return {spawn_id, status: running}.
HandleSpawn(kind, id) ==
    /\ ctl.pc = "idle"
    /\ Len(threads) < MaxSpawns
    /\ running_agents' = Put(running_agents, id,
           [spawn_id |-> id, model |-> ModelOf(kind), status |-> "running"])
    /\ threads' = Append(threads,
           [spawn_id |-> id, kind |-> kind, pc |-> "run", result |-> NoResult])
    /\ response' = [kind |-> "spawned", spawn_id |-> id, status |-> "running"]
    /\ listing' = NoListing
    /\ UNCHANGED <<completed_agents, background_results, ctl, decVars, redVars, colVars>>

\* The handler without its assignment to running_agents.
RegisterSpawn_Unregistered(kind, id) ==
    /\ ctl.pc = "idle"
    /\ Len(threads) < MaxSpawns
    /\ ctl' = [pc |-> IF kind = "codex" THEN "start_codex" ELSE "start_claude",
               spawn_id |-> id]
    /\ UNCHANGED <<running_agents, completed_agents, background_results, threads,
                   response, listing, decVars, redVars, colVars>>

\* The handler step by step. First: spawn_id = uuid.uuid4().hex[:8];
\* running_agents[spawn_id] = {...}. The handler does not await, so no other
\* request is served before its second step, but the threads run.
RegisterSpawn(kind, id) ==
    /\ ctl.pc = "idle"
    /\ Len(threads) < MaxSpawns
    /\ running_agents' = Put(running_agents, id,
           [spawn_id |-> id, model |-> ModelOf(kind), status |-> "running"])
    /\ ctl' = [pc |-> IF kind = "codex" THEN "start_codex" ELSE "start_claude",
               spawn_id |-> id]
    /\ UNCHANGED <<completed_agents, background_results, threads, response, listing,
                   decVars, redVars, colVars>>

\* Second: thread = threading.Thread(target=..., daemon=True); thread.start();
\* return {spawn_id, status: running}.
StartThread ==
    /\ ctl.pc \in {"start_claude", "start_codex"}
    /\ threads' = Append(threads,
           [spawn_id |-> ctl.spawn_id,
            kind     |-> IF ctl.pc = "start_codex" THEN "codex" ELSE "claude",
            pc       |-> "run",
            result   |-> NoResult])
    /\ response' = [kind |-> "spawned", spawn_id |-> ctl.spawn_id, status |-> "running"]
    /\ listing' = NoListing
    /\ ctl' = [pc |-> "idle", spawn_id |-> "-"]
    /\ UNCHANGED <<running_agents, completed_agents, background_results,
                   decVars, redVars, colVars>>

handle_spawn_claude == \E id \in SpawnIds : HandleSpawn("claude", id)

handle_spawn_codex == \E id \in SpawnIds : HandleSpawn("codex", id)

-----------------------------------------------------------------------------
(* The background thread: _run_spawn_claude_background and                 *)
(* _run_spawn_codex_background, statement by statement. No lock is taken.  *)

SetThread(t, pc, result) ==
    threads' = [threads EXCEPT ![t] = [@ EXCEPT !.pc = pc, !.result = result]]

\* try: result = _spawn_claude(...) / _spawn_codex(...)
RunSpawn(t) ==
    /\ t \in 1..Len(threads)
    /\ threads[t].pc = "run"
    /\ \E o \in (IF threads[t].kind = "codex" THEN CodexOutcomes ELSE ClaudeOutcomes) :
          SetThread(t, IF o.raised THEN "except" ELSE "store", o)
    /\ UNCHANGED <<running_agents, completed_agents, background_results, ctl, response, listing, decVars, redVars, colVars>>

\* The stored dict without its key "completed_at".
CompletedRecord_NoStamp(t) ==
    [spawn_id |-> threads[t].spawn_id,
     success  |-> threads[t].result.success,
     model    |-> ModelOf(threads[t].kind),
     status   |-> IF threads[t].result.raised THEN "failed" ELSE "completed",
     error    |-> threads[t].result.error]

\* The dict the thread stores; "completed_at" holds
\* datetime.utcnow().isoformat() + "Z".
CompletedRecord(t) ==
    [spawn_id     |-> threads[t].spawn_id,
     success      |-> threads[t].result.success,
     model        |-> ModelOf(threads[t].kind),
     completed_at |-> "utcnow",
     status       |-> IF threads[t].result.raised THEN "failed" ELSE "completed",
     error        |-> threads[t].result.error]

\* The stores into background_results and completed_agents.
StoreCompleted(t, rec) ==
    /\ background_results' = Put(background_results, rec.spawn_id, rec)
    /\ completed_agents' = Put(completed_agents, rec.spawn_id, rec)

\* background_results[spawn_id] = {... "status": "completed" ...};
\* completed_agents[spawn_id] = background_results[spawn_id]
StoreResult(t) ==
    /\ t \in 1..Len(threads)
    /\ threads[t].pc = "store"
    /\ StoreCompleted(t, CompletedRecord(t))
    /\ SetThread(t, "finally", NoResult)
    /\ UNCHANGED <<running_agents, ctl, response, listing, decVars, redVars, colVars>>

\* The except clause without its stores: the exception is recorded nowhere.
StoreException_Unrecorded(t) ==
    /\ t \in 1..Len(threads)
    /\ threads[t].pc = "except"
    /\ SetThread(t, "finally", NoResult)
    /\ UNCHANGED <<running_agents, completed_agents, background_results, ctl, response, listing, decVars, redVars, colVars>>

\* except Exception as e: the same two stores with "status": "failed".
StoreException(t) ==
    /\ t \in 1..Len(threads)
    /\ threads[t].pc = "except"
    /\ StoreCompleted(t, CompletedRecord(t))
    /\ SetThread(t, "finally", NoResult)
    /\ UNCHANGED <<running_agents, ctl, response, listing, decVars, redVars, colVars>>

\* The finally clause forgotten: the id is left in running_agents.
RemoveRunning_Skipped(t) ==
    running_agents' = running_agents

\* finally: if spawn_id in running_agents: del running_agents[spawn_id]
RemoveRunning(t) ==
    running_agents' = IF Has(running_agents, threads[t].spawn_id)
                      THEN Del(running_agents, threads[t].spawn_id)
                      ELSE running_agents

FinallyRemove(t) ==
    /\ t \in 1..Len(threads)
    /\ threads[t].pc = "finally"
    /\ RemoveRunning(t)
    /\ SetThread(t, "done", NoResult)
    /\ UNCHANGED <<completed_agents, background_results, ctl, response, listing, decVars, redVars, colVars>>

Worker(t) == RunSpawn(t) \/ StoreResult(t) \/ StoreException(t) \/ FinallyRemove(t)

-----------------------------------------------------------------------------
(* The control surface: get_result. The handler runs on the control loop   *)
(* while the worker threads run; its reads of the two dicts are separate   *)
(* steps.                                                                  *)

Idle == [pc |-> "idle", spawn_id |-> "-"]

\* A handler that takes the record out of completed_agents as it answers.
GetResultCheckCompleted_Pops(id) ==
    /\ ctl.pc = "idle"
    /\ IF Has(completed_agents, id)
       THEN /\ response' = [kind |-> "outcome", spawn_id |-> id,
                            status |-> Get(completed_agents, id).status]
            /\ ctl' = Idle
            /\ completed_agents' = Del(completed_agents, id)
       ELSE /\ response' = [kind |-> "none", spawn_id |-> id, status |-> "-"]
            /\ ctl' = [pc |-> "check_running", spawn_id |-> id]
            /\ UNCHANGED completed_agents
    /\ listing' = NoListing
    /\ UNCHANGED <<running_agents, background_results, threads, decVars, redVars, colVars>>

\* if spawn_id in completed_agents: return completed_agents[spawn_id]
GetResultCheckCompleted(id) ==
    /\ ctl.pc = "idle"
    /\ IF Has(completed_agents, id)
       THEN /\ response' = [kind |-> "outcome", spawn_id |-> id,
                            status |-> Get(completed_agents, id).status]
            /\ ctl' = Idle
       ELSE /\ response' = [kind |-> "none", spawn_id |-> id, status |-> "-"]
            /\ ctl' = [pc |-> "check_running", spawn_id |-> id]
    /\ listing' = NoListing
    /\ UNCHANGED <<running_agents, completed_agents, background_results, threads, decVars, redVars, colVars>>

\* if spawn_id in running_agents: ...; otherwise the logger's active spawns
\* are consulted and the answer is "running" (from logger) or "not_found".
\* The logger keys its spawns by its own ids, so either answer can come.
GetResultCheckRunning ==
    /\ ctl.pc = "check_running"
    /\ IF Has(running_agents, ctl.spawn_id)
       THEN /\ ctl' = [ctl EXCEPT !.pc = "read_running"]
            /\ UNCHANGED response
       ELSE /\ \E in_logger \in BOOLEAN :
                 response' = [kind |-> "status", spawn_id |-> ctl.spawn_id,
                              status |-> IF in_logger THEN "running" ELSE "not_found"]
            /\ ctl' = Idle
    /\ UNCHANGED <<running_agents, completed_agents, background_results, threads, listing, decVars, redVars, colVars>>

\* info = running_agents[spawn_id]; return {... "status": "running" ...}.
\* A KeyError is turned into an error response by call_tool.
GetResultReadRunning ==
    /\ ctl.pc = "read_running"
    /\ response' = IF Has(running_agents, ctl.spawn_id)
                   THEN [kind |-> "status", spawn_id |-> ctl.spawn_id, status |-> "running"]
                   ELSE [kind |-> "error", spawn_id |-> ctl.spawn_id, status |-> "KeyError"]
    /\ ctl' = Idle
    /\ UNCHANGED <<running_agents, completed_agents, background_results, threads, listing, decVars, redVars, colVars>>

handle_get_result ==
    \/ \E id \in SpawnIds : GetResultCheckCompleted(id)
    \/ GetResultCheckRunning
    \/ GetResultReadRunning

-----------------------------------------------------------------------------
(* The control surface: list_running. The loop over running_agents.items() *)
(* runs on the control loop while the worker threads run; every pass of    *)
(* the loop is a separate step.                                            *)

\* list(completed_agents.keys())[-100:] keeps this many keys.
RecentLimit == 100

\* seq[-n:]
\* A slice that keeps the whole list.
LastN_All(seq, n) == seq

LastN(seq, n) == SubSeq(seq, IF Len(seq) > n THEN Len(seq) - n + 1 ELSE 1, Len(seq))

\* agents = []; for spawn_id, info in running_agents.items(): the iterator
\* is made and remembers the size of the dict.
ListStart ==
    /\ ctl.pc = "idle"
    /\ listing' = [NoListing EXCEPT !.size = Len(running_agents)]
    /\ ctl' = [pc |-> "list_iter", spawn_id |-> "-"]
    /\ response' = [kind |-> "none", spawn_id |-> "-", status |-> "-"]
    /\ UNCHANGED <<running_agents, completed_agents, background_results, threads, decVars, redVars, colVars>>

\* One pass of the loop. The dict iterator raises RuntimeError ("dictionary
\* changed size during iteration") when the dict no longer has the size it
\* had; call_tool turns the exception into an error response.
ListIterNext ==
    /\ ctl.pc = "list_iter"
    /\ IF Len(running_agents) # listing.size
       THEN /\ response' = [kind |-> "error", spawn_id |-> "-", status |-> "RuntimeError"]
            /\ ctl' = Idle
            /\ listing' = NoListing
       ELSE IF listing.pos = Len(running_agents)
       THEN /\ ctl' = [ctl EXCEPT !.pc = "list_recent"]
            /\ UNCHANGED <<response, listing>>
       ELSE /\ listing' = [listing EXCEPT
                              !.pos = @ + 1,
                              !.agents = Append(@, running_agents[listing.pos + 1].spawn_id)]
            /\ UNCHANGED <<response, ctl>>
    /\ UNCHANGED <<running_agents, completed_agents, background_results, threads, decVars, redVars, colVars>>

\* recent = list(completed_agents.keys())[-100:]; the response is
\* {running_agents: agents, running_count, recent_completed}.
ListRecent ==
    /\ ctl.pc = "list_recent"
    /\ listing' = [listing EXCEPT
                     !.count = Len(listing.agents),
                     !.recent = LastN([i \in 1..Len(completed_agents) |->
                                          completed_agents[i].spawn_id], RecentLimit)]
    /\ response' = [kind |-> "list", spawn_id |-> "-", status |-> "ok"]
    /\ ctl' = Idle
    /\ UNCHANGED <<running_agents, completed_agents, background_results, threads, decVars, redVars, colVars>>

handle_list_running == ListStart \/ ListIterNext \/ ListRecent

\* call_tool with a name that is none of the five tools: the text
\* "Unknown tool: {name}" is returned.
UnknownTool ==
    /\ ctl.pc = "idle"
    /\ response' = [kind |-> "text", spawn_id |-> "-", status |-> "unknown_tool"]
    /\ listing' = NoListing
    /\ UNCHANGED <<running_agents, completed_agents, background_results, threads, ctl, decVars, redVars, colVars>>

\* handle_get_context: the preview of the project context is returned; the
\* registry is not read.
handle_get_context ==
    /\ ctl.pc = "idle"
    /\ response' = [kind |-> "context", spawn_id |-> "-", status |-> "ok"]
    /\ listing' = NoListing
    /\ UNCHANGED <<running_agents, completed_agents, background_results, threads, ctl, decVars, redVars, colVars>>

-----------------------------------------------------------------------------
(* Lines of worker output and the JSON documents they hold. A line is kept *)
(* as what json.loads makes of it: its syntax class and, for an object,    *)
(* the keys the orchestrator reads. A key that is missing holds Absent,    *)
(* NoneStr or NoneMsg, which is what dict.get returns for it.              *)

Absent == "absent"

\* A Python str: the first len characters of the text named s.
Str(s, n) == [s |-> s, len |-> n]

EmptyStr == Str("", 0)

NoneStr == [s |-> "None", len |-> -1]

\* "if x:" / "x or ...": None and "" are false.
Truthy(x) == x.len > 0

\* The slice left out: the whole string is kept.
Prefix_Whole(x, n) == x

\* s[:n]
Prefix(x, n) == IF x.len <= n THEN x ELSE [s |-> x.s, len |-> n]

\* An error message: a format text and the number formatted into it.
Msg(text, n) == [text |-> text, n |-> n]

NoneMsg == Msg("None", 0)

JsonObject(type, item_type, text, output, message, usage, thread_id) ==
    [syntax |-> "object", type |-> type, item_type |-> item_type, text |-> text,
     aggregated_output |-> output, message |-> message, usage |-> usage,
     thread_id |-> thread_id]

\* A line that is no JSON object: text json.loads rejects ("malformed",
\* "blank") or a JSON number, string, array or null.
PlainLine(syntax) ==
    [syntax |-> syntax, type |-> Absent, item_type |-> Absent, text |-> NoneStr,
     aggregated_output |-> NoneStr, message |-> NoneMsg, usage |-> Absent,
     thread_id |-> Absent]

ThreadStartedLine == JsonObject("thread.started", Absent, NoneStr, NoneStr, NoneMsg, Absent, "thread-1")

AgentMessageLine == JsonObject("item.completed", "agent_message", Str("done", 4), NoneStr, NoneMsg, Absent, Absent)

EmptyMessageLine == JsonObject("item.completed", "agent_message", EmptyStr, NoneStr, NoneMsg, Absent, Absent)

CommandLine == JsonObject("item.completed", "command_execution", NoneStr, Str("ok", 2), NoneMsg, Absent, Absent)

EmptyCommandLine == JsonObject("item.completed", "command_execution", NoneStr, EmptyStr, NoneMsg, Absent, Absent)

TurnCompletedLine == JsonObject("turn.completed", Absent, NoneStr, NoneStr, NoneMsg, "usage-1", Absent)

ErrorLine == JsonObject("error", Absent, NoneStr, NoneStr, Msg("boom", 0), Absent, Absent)

BareErrorLine == JsonObject("error", Absent, NoneStr, NoneStr, NoneMsg, Absent, Absent)

UntypedLine == JsonObject(Absent, Absent, NoneStr, NoneStr, NoneMsg, Absent, Absent)

\* A second agent message, a command output longer than the fallback text
\* may be, a second usage payload and a second error message.
OtherMessageLine == JsonObject("item.completed", "agent_message", Str("working", 7), NoneStr, NoneMsg, Absent, Absent)

LongCommandLine == JsonObject("item.completed", "command_execution", NoneStr, Str("log", 5001), NoneMsg, Absent, Absent)

OtherTurnCompletedLine == JsonObject("turn.completed", Absent, NoneStr, NoneStr, NoneMsg, "usage-2", Absent)

OtherErrorLine == JsonObject("error", Absent, NoneStr, NoneStr, Msg("bang", 0), Absent, Absent)

\* A command execution that has started and already carries output.
StartedCommandLine == JsonObject("item.started", "command_execution", NoneStr, Str("partial", 7), NoneMsg, Absent, Absent)

-----------------------------------------------------------------------------
(* parser.parse_codex_event                                                *)

\* CodexEvent(type=..., data=...)
CodexEvent(type, data) == [type |-> type, data |-> data]

NoEvent == CodexEvent("-", PlainLine("-"))

\* data.get("type", "unknown")
EventType(data) == IF data.type = Absent THEN "unknown" ELSE data.type

\* json.loads(line) raises JSONDecodeError on malformed text, which is
\* caught: None. On a document that is no object, data.get raises
\* AttributeError, which is not caught.
parse_codex_event(line) ==
    IF line.syntax \in {"malformed", "blank"}
    THEN [kind |-> "none", event |-> NoEvent, error |-> "none"]
    ELSE IF line.syntax = "object"
    THEN [kind |-> "event", event |-> CodexEvent(EventType(line), line), error |-> "none"]
    ELSE [kind |-> "raise", event |-> NoEvent, error |-> "AttributeError"]

\* Number of lines handed to the decoder in one behaviour.
MaxDecoded == 3

DecoderLines ==
    { PlainLine("malformed"), PlainLine("blank"), PlainLine("number"),
      PlainLine("string"), PlainLine("array"), PlainLine("null"),
      ThreadStartedLine, UntypedLine }

\* One call of parse_codex_event.
DecodeLine(line) ==
    /\ Len(lines_in) < MaxDecoded
    /\ lines_in' = Append(lines_in, line)
    /\ decoded' = Append(decoded, parse_codex_event(line))
    /\ UNCHANGED <<response_text, claude_result, timeout_choice, regVars, redVars, colVars>>

-----------------------------------------------------------------------------
(* parser.parse_claude_response: the single document the Claude CLI prints *)
(* is turned into an AgentResult.                                          *)

\* A JSON object with the keys parse_claude_response decides on. A missing
\* key "result" holds NoneStr.
ClaudeDocument(type, subtype, result) ==
    [syntax |-> "object", type |-> type, subtype |-> subtype, result |-> result]

\* Text json.loads rejects, or a JSON document that is no object.
PlainDocument(syntax) ==
    [syntax |-> syntax, type |-> Absent, subtype |-> Absent, result |-> NoneStr]

\* f"Failed to parse JSON response: {e}"
ParseFailure == Str("Failed to parse JSON response: {e}", 31)

NoClaudeResult == [kind |-> "none", success |-> FALSE, text |-> EmptyStr, error |-> NoneStr]

\* success = type == "result" and subtype == "success"; text =
\* data.get("result", ""); error = None if subtype == "success" else
\* data.get("result"). JSONDecodeError is caught; on a document that is no
\* object data.get raises AttributeError, which is not caught here.
parse_claude_response(doc) ==
    IF doc.syntax \in {"malformed", "blank", "empty"}
    THEN [kind |-> "result", success |-> FALSE, text |-> EmptyStr, error |-> ParseFailure]
    ELSE IF doc.syntax = "object"
    THEN [kind    |-> "result",
          success |-> doc.type = "result" /\ doc.subtype = "success",
          text    |-> IF doc.result = NoneStr THEN EmptyStr ELSE doc.result,
          error   |-> IF doc.subtype = "success" THEN NoneStr ELSE doc.result]
    ELSE [kind |-> "raise", success |-> FALSE, text |-> EmptyStr,
          error |-> Str("AttributeError", 14)]

ClaudeDocuments ==
    { ClaudeDocument(t, st, r) :
        t \in {"result", "assistant", Absent},
        st \in {"success", "error_max_turns", Absent},
        r \in {NoneStr, Str("ok", 2)} }
    \cup { PlainDocument("malformed"), PlainDocument("blank"), PlainDocument("empty"),
           PlainDocument("number"), PlainDocument("array") }

\* One call of parse_claude_response.
ParseResponse(doc) ==
    /\ response_text' = doc
    /\ claude_result' = parse_claude_response(doc)
    /\ UNCHANGED <<lines_in, decoded, timeout_choice, regVars, redVars, colVars>>

-----------------------------------------------------------------------------
(* spawner.spawn_claude from its try statement on: subprocess.run with the *)
(* timeout, the test of the exit code, parse_claude_response, and the two  *)
(* except clauses.                                                         *)

\* The timeouts the server passes (300, or 600 for a test task); 300 is also
\* the default of spawn_claude.
ClaudeTimeouts == {300, 600}

\* What subprocess.run can raise besides TimeoutExpired: the executable is
\* missing, or the launch fails otherwise.
LaunchFailures == {"FileNotFoundError", "OSError"}

\* f"Agent timed out after {timeout} seconds"
TimedOutMessage(timeout) ==
    IF timeout = 300
    THEN Str("Agent timed out after 300 seconds", 33)
    ELSE Str("Agent timed out after 600 seconds", 33)

\* result.stderr or f"Exit code {result.returncode}"
ExitMessage(stderr, returncode) ==
    IF Truthy(stderr) THEN stderr ELSE Str("Exit code 1", 11)

\* str(e) of an exception caught by "except Exception"
ExceptionText(e) == Str(e, 1)

NoClaudeCall ==
    [pc |-> "idle", timeout |-> 300, returncode |-> 0, stdout |-> PlainDocument("-"),
     stderr |-> EmptyStr, exc |-> "none", result |-> NoClaudeResult, log |-> <<>>]

\* What spawn_claude hands to the logger: log_spawn_start(...), which returns
\* the spawn id of the call, and log_spawn_complete(spawn_id=..., success=...).
LogStart == [entry |-> "start", success |-> FALSE]

LogComplete(success) == [entry |-> "complete", success |-> success]

\* What building the command line can raise: ",".join(tools) on a tool that
\* is no str, load_schema on a schema file that cannot be read.
BuildFailures == {"TypeError", "OSError"}

ClaudeFailure(error) ==
    [kind |-> "result", success |-> FALSE, text |-> EmptyStr, error |-> error]

\* The call formats the prompt and logs the spawn start.
CallSpawnClaude(timeout) ==
    /\ claude_call.pc = "idle"
    /\ claude_call' = [NoClaudeCall EXCEPT !.pc = "build", !.timeout = timeout,
                                           !.log = <<LogStart>>]
    /\ UNCHANGED <<events, agent_result, regVars, decVars, colVars>>

\* cmd = [...]; cmd.extend(...); cwd = ...: the call arrives at its try
\* statement, or an exception leaves spawn_claude before the launch.
BuildCommand ==
    /\ claude_call.pc = "build"
    /\ \/ claude_call' = [claude_call EXCEPT !.pc = "run"]
       \/ \E e \in BuildFailures :
             claude_call' = [claude_call EXCEPT !.pc = "raised_unlaunched", !.exc = e]
    /\ UNCHANGED <<events, agent_result, regVars, decVars, colVars>>

\* result = subprocess.run(cmd, ..., timeout=timeout): the process ends and
\* its exit code and output are returned, or the timeout passes, the process
\* is killed and TimeoutExpired is raised, or the launch fails.
SubprocessRun ==
    /\ claude_call.pc = "run"
    /\ \/ \E rc \in {0, 1}, out \in ClaudeDocuments, err \in {EmptyStr, Str("fatal", 5)} :
             claude_call' = [claude_call EXCEPT !.pc = "returned", !.returncode = rc,
                                                !.stdout = out, !.stderr = err]
       \/ \E e \in LaunchFailures \cup {"TimeoutExpired"} :
             claude_call' = [claude_call EXCEPT !.pc = "except", !.exc = e]
    /\ UNCHANGED <<events, agent_result, regVars, decVars, colVars>>

\* if result.returncode != 0 and not result.stdout: return the failure;
\* otherwise return parse_claude_response(result.stdout), whose
\* AttributeError goes to "except Exception".
ClaudeReturned ==
    /\ claude_call.pc = "returned"
    /\ IF claude_call.returncode # 0 /\ claude_call.stdout.syntax = "empty"
       THEN claude_call' = [claude_call EXCEPT
                !.pc = "done",
                !.log = Append(@, LogComplete(FALSE)),
                !.result = ClaudeFailure(ExitMessage(claude_call.stderr, claude_call.returncode))]
       ELSE LET r == parse_claude_response(claude_call.stdout) IN
            IF r.kind = "raise"
            THEN claude_call' = [claude_call EXCEPT !.pc = "except", !.exc = "AttributeError"]
            ELSE claude_call' = [claude_call EXCEPT !.pc = "done",
                                                   !.log = Append(@, LogComplete(r.success)),
                                                   !.result = r]
    /\ UNCHANGED <<events, agent_result, regVars, decVars, colVars>>

\* The call without its except clauses: the exception leaves spawn_claude.
ClaudeExcept_Propagates ==
    /\ claude_call.pc = "except"
    /\ claude_call' = [claude_call EXCEPT !.pc = "raised"]
    /\ UNCHANGED <<events, agent_result, regVars, decVars, colVars>>

\* except subprocess.TimeoutExpired: ...; except Exception as e: ...: both
\* return AgentResult(success=False, error=error_msg).
ClaudeExcept ==
    /\ claude_call.pc = "except"
    /\ claude_call' = [claude_call EXCEPT
            !.pc = "done",
            !.log = Append(@, LogComplete(FALSE)),
            !.result = ClaudeFailure(IF claude_call.exc = "TimeoutExpired"
                                     THEN TimedOutMessage(claude_call.timeout)
                                     ELSE ExceptionText(claude_call.exc))]
    /\ UNCHANGED <<events, agent_result, regVars, decVars, colVars>>

-----------------------------------------------------------------------------
(* mcp_server.handle_spawn_claude / handle_spawn_codex: the timeout handed *)
(* to the background thread. Texts are sequences of characters.            *)

\* An argument the request does not carry (args.get gives None).
NoText == [given |-> FALSE, chars |-> <<>>]

Text(chars) == [given |-> TRUE, chars |-> chars]

NoTimeout == [given |-> FALSE, seconds |-> 0]

GivenTimeout(n) == [given |-> TRUE, seconds |-> n]

\* The text left as it is.
Lower_Identity(chars) == chars

\* str.lower()
Lower(chars) ==
    [i \in 1..Len(chars) |->
        CASE chars[i] = "T" -> "t"
          [] chars[i] = "E" -> "e"
          [] chars[i] = "S" -> "s"
          [] chars[i] = "R" -> "r"
          [] OTHER -> chars[i]]

\* "test" in label
ContainsTest(chars) ==
    \E i \in 1..Len(chars) :
        /\ i + 3 <= Len(chars)
        /\ SubSeq(chars, i, i + 3) = <<"t", "e", "s", "t">>

\* task_summary or prompt: None and "" give the prompt.
TaskLabel(kind, args) ==
    IF kind = "claude" /\ args.task_summary.given /\ Len(args.task_summary.chars) > 0
    THEN args.task_summary.chars
    ELSE args.prompt.chars

\* if "test" in task_label: timeout = args.get("timeout", 600) else:
\* timeout = args.get("timeout", 300); for Codex 300 and 120.
SpawnTimeout(kind, args) ==
    IF ContainsTest(Lower(TaskLabel(kind, args)))
    THEN IF args.timeout.given THEN args.timeout.seconds
         ELSE IF kind = "claude" THEN 600 ELSE 300
    ELSE IF args.timeout.given THEN args.timeout.seconds
         ELSE IF kind = "claude" THEN 300 ELSE 120

Prompts ==
    { Text(<<"R", "u", "n", " ", "T", "e", "s", "t", "s">>),
      Text(<<"t", "e", "s", "t", " ", "i", "t">>),
      Text(<<"c", "o", "n", "T", "E", "S", "T">>),
      Text(<<"f", "i", "x", " ", "t", "e", "s">>),
      Text(<<"t", "e", "s">>) }

Summaries ==
    { NoText, Text(<<>>),
      Text(<<"T", "E", "S", "T">>),
      Text(<<"r", "e", "s", "t">>) }

GivenTimeouts == {NoTimeout, GivenTimeout(45), GivenTimeout(900)}

SpawnArgs ==
    [prompt : Prompts, task_summary : Summaries, timeout : GivenTimeouts]

NoChoice ==
    [kind |-> "none",
     args |-> [prompt |-> Text(<<>>), task_summary |-> NoText, timeout |-> NoTimeout],
     timeout |-> 0]

\* The handler reads its arguments and settles the timeout of the thread.
ChooseTimeout(kind, args) ==
    /\ timeout_choice' = [kind |-> kind, args |-> args, timeout |-> SpawnTimeout(kind, args)]
    /\ UNCHANGED <<lines_in, decoded, response_text, claude_result, regVars, redVars, colVars>>

-----------------------------------------------------------------------------
(* spawner.CodexEvent properties and the reducer inside spawn_codex.       *)

is_message(e) == e.type = "item.completed" /\ e.data.item_type = "agent_message"

is_command(e) == e.data.item_type = "command_execution"

\* CodexEvent.text
text(e) == IF is_message(e) THEN e.data.text ELSE NoneStr

\* CodexEvent.command_output
command_output(e) == IF is_command(e) THEN e.data.aggregated_output ELSE NoneStr

\* The locals of spawn_codex before the loop over the events.
ReducerStart ==
    [final_text |-> EmptyStr, command_outputs |-> <<>>, usage |-> "{}",
     session_id |-> "None", error |-> NoneMsg, had_turn_completed |-> FALSE]

\* event.data.get("message")
ErrorMessage(e) == e.data.message

\* The loop body with a message branch that keeps the first text it saw.
ReduceStep_FirstMessage(st, e) ==
    IF e.type = "thread.started"
    THEN [st EXCEPT !.session_id = IF e.data.thread_id = Absent THEN "None" ELSE e.data.thread_id]
    ELSE IF is_message(e)
    THEN IF st.final_text = EmptyStr
         THEN [st EXCEPT !.final_text = IF Truthy(text(e)) THEN text(e) ELSE EmptyStr]
         ELSE st
    ELSE IF is_command(e)
    THEN IF Truthy(command_output(e))
         THEN [st EXCEPT !.command_outputs = Append(@, command_output(e))]
         ELSE st
    ELSE IF e.type = "turn.completed"
    THEN [st EXCEPT !.usage = IF e.data.usage = Absent THEN "{}" ELSE e.data.usage,
                    !.had_turn_completed = TRUE]
    ELSE IF e.type = "error"
    THEN [st EXCEPT !.error = ErrorMessage(e)]
    ELSE st

\* One pass of the loop body: the if/elif chain.
ReduceStep(st, e) ==
    IF e.type = "thread.started"
    THEN [st EXCEPT !.session_id = IF e.data.thread_id = Absent THEN "None" ELSE e.data.thread_id]
    ELSE IF is_message(e)
    THEN [st EXCEPT !.final_text = IF Truthy(text(e)) THEN text(e) ELSE EmptyStr]
    ELSE IF is_command(e)
    THEN IF Truthy(command_output(e))
         THEN [st EXCEPT !.command_outputs = Append(@, command_output(e))]
         ELSE st
    ELSE IF e.type = "turn.completed"
    THEN [st EXCEPT !.usage = IF e.data.usage = Absent THEN "{}" ELSE e.data.usage,
                    !.had_turn_completed = TRUE]
    ELSE IF e.type = "error"
    THEN [st EXCEPT !.error = ErrorMessage(e)]
    ELSE st

RECURSIVE ReduceEvents(_, _)
\* for event in events: ...
ReduceEvents(st, es) ==
    IF es = <<>> THEN st ELSE ReduceEvents(ReduceStep(st, Head(es)), Tail(es))

\* Maximum length of the fallback text: command_outputs[-1][:5000]
TruncateLen == 5000

\* A decision that does not look at the error.
Success_IgnoresError(st) ==
    \/ st.final_text # EmptyStr
    \/ st.had_turn_completed /\ Len(st.command_outputs) > 0

\* success = error is None and (final_text != "" or
\*           (had_turn_completed and len(command_outputs) > 0))
Success(st) ==
    /\ st.error = NoneMsg
    /\ \/ st.final_text # EmptyStr
       \/ st.had_turn_completed /\ Len(st.command_outputs) > 0

\* The AgentResult spawn_codex returns for a list of events.
ReduceResult(es) ==
    LET st == ReduceEvents(ReducerStart, es) IN
    [success    |-> Success(st),
     text       |-> IF ~Truthy(st.final_text) /\ Len(st.command_outputs) > 0
                    THEN Prefix(st.command_outputs[Len(st.command_outputs)], TruncateLen)
                    ELSE st.final_text,
     session_id |-> st.session_id,
     usage      |-> st.usage,
     error      |-> st.error]

\* Number of events in one stream.
MaxEvents == 3

ReducerLines ==
    { ThreadStartedLine, AgentMessageLine, EmptyMessageLine, CommandLine,
      EmptyCommandLine, TurnCompletedLine, ErrorLine, BareErrorLine, UntypedLine,
      OtherMessageLine, LongCommandLine, OtherTurnCompletedLine, OtherErrorLine,
      StartedCommandLine }

\* spawn_codex on a stream that holds one more event.
CollectEvent(line) ==
    /\ Len(events) < MaxEvents
    /\ events' = Append(events, parse_codex_event(line).event)
    /\ agent_result' = ReduceResult(events')
    /\ UNCHANGED <<claude_call, regVars, decVars, colVars>>

-----------------------------------------------------------------------------
(* spawner._spawn_codex_stream_internal: the generator that launches the   *)
(* worker, writes the prompt, reads standard output line by line and then  *)
(* waits for the process. The worker runs beside it. Time passes only      *)
(* while the generator is blocked in a read or in proc.wait.               *)

\* The timeout argument, in ticks.
Timeout == 2

\* The clock stops here.
MaxTime == 4

\* Number of lines the worker writes in one behaviour.
MaxLines == 2

CollectorLines ==
    { ThreadStartedLine, TurnCompletedLine, PlainLine("malformed"),
      PlainLine("blank"), PlainLine("number"),
      AgentMessageLine, CommandLine, ErrorLine }

\* CodexEvent(type="error", data={"message": ...})
SyntheticError(msg) ==
    CodexEvent("error", JsonObject(Absent, Absent, NoneStr, NoneStr, msg, Absent, Absent))

\* f"Timed out after {timeout}s"
TimeoutMessage == Msg("Timed out after {timeout}s", Timeout)

\* str(e)
ExceptionMessage(e) == Msg(e, 0)

\* The worker writes a line to its standard output.
WorkerWrite(line) ==
    /\ proc = "running"
    /\ stdout_open
    /\ Len(written) < MaxLines
    /\ written' = Append(written, line)
    /\ UNCHANGED <<cpc, proc, stdout_open, read_pos, yielded, now, wait_start,
                   launched, stdin, exc, caught, regVars, decVars, redVars>>

\* The worker closes its standard output and keeps running.
WorkerCloseStdout ==
    /\ proc = "running"
    /\ stdout_open
    /\ stdout_open' = FALSE
    /\ UNCHANGED <<cpc, proc, written, read_pos, yielded, now, wait_start,
                   launched, stdin, exc, caught, regVars, decVars, redVars>>

\* The worker exits; its end of the pipe is closed with it.
WorkerExit ==
    /\ proc = "running"
    /\ proc' = "exited"
    /\ stdout_open' = FALSE
    /\ UNCHANGED <<cpc, written, read_pos, yielded, now, wait_start,
                   launched, stdin, exc, caught, regVars, decVars, redVars>>

\* proc = subprocess.Popen(...): the process starts, or OSError.
Popen ==
    /\ cpc = "start"
    /\ \/ /\ proc' = "running"
          /\ stdout_open' = TRUE
          /\ launched' = launched + 1
          /\ stdin' = "open"
          /\ cpc' = "write_stdin"
          /\ UNCHANGED exc
       \/ /\ exc' = "OSError"
          /\ cpc' = "raised"
          /\ UNCHANGED <<proc, stdout_open, launched, stdin>>
    /\ UNCHANGED <<written, read_pos, yielded, now, wait_start, caught,
                   regVars, decVars, redVars>>

\* The prompt is written and the pipe is left open.
WriteStdin_Unclosed ==
    /\ cpc = "write_stdin"
    /\ \/ cpc' = "read" /\ UNCHANGED exc
       \/ cpc' = "raised" /\ exc' = "BrokenPipeError"
    /\ UNCHANGED <<proc, stdout_open, written, read_pos, yielded, now, wait_start,
                   launched, stdin, caught, regVars, decVars, redVars>>

\* proc.stdin.write(prompt); proc.stdin.close(): done, or BrokenPipeError
\* from the write, which leaves the pipe as it is.
WriteStdin ==
    /\ cpc = "write_stdin"
    /\ \/ cpc' = "read" /\ stdin' = "closed" /\ UNCHANGED exc
       \/ cpc' = "raised" /\ exc' = "BrokenPipeError" /\ UNCHANGED stdin
    /\ UNCHANGED <<proc, stdout_open, written, read_pos, yielded, now, wait_start,
                   launched, caught, regVars, decVars, redVars>>

\* for line in proc.stdout: line = line.strip(); if line: event =
\* parse_codex_event(line); if event: yield event
ReadLine ==
    /\ cpc = "read"
    /\ read_pos < Len(written)
    /\ read_pos' = read_pos + 1
    /\ LET line == written[read_pos + 1]
           r == parse_codex_event(line)
       IN  IF line.syntax = "blank" \/ r.kind = "none"
           THEN UNCHANGED <<cpc, yielded, exc>>
           ELSE IF r.kind = "event"
           THEN /\ yielded' = Append(yielded, r.event)
                /\ cpc' = "suspended"
                /\ UNCHANGED exc
           ELSE /\ exc' = r.error
                /\ cpc' = "raised"
                /\ UNCHANGED yielded
    /\ UNCHANGED <<proc, stdout_open, written, now, wait_start, launched, stdin, caught,
                   regVars, decVars, redVars>>

\* Reading the pipe fails.
ReadFails ==
    /\ cpc = "read"
    /\ exc' = "IOError"
    /\ cpc' = "raised"
    /\ UNCHANGED <<proc, stdout_open, written, read_pos, yielded, now, wait_start,
                   launched, stdin, caught, regVars, decVars, redVars>>

\* The loop ends at end of file, and only there; then proc.wait(timeout=timeout)
\* is entered.
ReadEOF ==
    /\ cpc = "read"
    /\ read_pos = Len(written)
    /\ ~stdout_open
    /\ cpc' = "wait"
    /\ wait_start' = now
    /\ UNCHANGED <<proc, stdout_open, written, read_pos, yielded, now,
                   launched, stdin, exc, caught, regVars, decVars, redVars>>

\* The consumer asks for the next event.
ConsumerNext ==
    /\ cpc = "suspended"
    /\ cpc' = "read"
    /\ UNCHANGED <<proc, stdout_open, written, read_pos, yielded, now, wait_start,
                   launched, stdin, exc, caught, regVars, decVars, redVars>>

\* The consumer closes the generator: GeneratorExit is raised at the yield,
\* passes the except clauses, runs the finally clause and ends in close().
ConsumerClose ==
    /\ cpc = "suspended"
    /\ cpc' = "finally"
    /\ caught' = "GeneratorExit"
    /\ UNCHANGED <<proc, stdout_open, written, read_pos, yielded, now, wait_start,
                   launched, stdin, exc, regVars, decVars, redVars>>

\* proc.wait returns: the process has exited.
WaitReturns ==
    /\ cpc = "wait"
    /\ proc = "exited"
    /\ cpc' = "finally"
    /\ UNCHANGED <<proc, stdout_open, written, read_pos, yielded, now, wait_start,
                   launched, stdin, exc, caught, regVars, decVars, redVars>>

\* proc.wait raises TimeoutExpired, timeout after it was entered.
WaitTimesOut ==
    /\ cpc = "wait"
    /\ proc = "running"
    /\ now - wait_start >= Timeout
    /\ exc' = "TimeoutExpired"
    /\ cpc' = "raised"
    /\ UNCHANGED <<proc, stdout_open, written, read_pos, yielded, now, wait_start,
                   launched, stdin, caught, regVars, decVars, redVars>>

\* if proc and proc.poll() is None: proc.kill()
Kill == proc' = IF proc = "running" THEN "killed" ELSE proc

\* except subprocess.TimeoutExpired: if proc: proc.kill(); yield the error
HandleTimeout ==
    /\ cpc = "raised"
    /\ exc = "TimeoutExpired"
    /\ Kill
    /\ stdout_open' = FALSE
    /\ yielded' = Append(yielded, SyntheticError(TimeoutMessage))
    /\ exc' = "none"
    /\ caught' = exc
    /\ cpc' = "finally"
    /\ UNCHANGED <<written, read_pos, now, wait_start, launched, stdin,
                   regVars, decVars, redVars>>

\* The handler missing: the exception leaves the generator.
CatchException_Propagates ==
    /\ UNCHANGED <<yielded, exc>>
    /\ caught' = exc

\* except Exception as e: yield CodexEvent(type="error", data={"message": str(e)})
CatchException ==
    /\ yielded' = Append(yielded, SyntheticError(ExceptionMessage(exc)))
    /\ exc' = "none"
    /\ caught' = exc

HandleException ==
    /\ cpc = "raised"
    /\ exc # "TimeoutExpired"
    /\ CatchException
    /\ cpc' = "finally"
    /\ UNCHANGED <<proc, stdout_open, written, read_pos, now, wait_start, launched, stdin,
                   regVars, decVars, redVars>>

\* The finally clause without its kill.
FinallyKill_NoKill == proc' = proc

\* finally: if proc and proc.poll() is None: proc.kill()
FinallyKill == Kill

Finally ==
    /\ cpc = "finally"
    /\ FinallyKill
    /\ stdout_open' = FALSE
    /\ cpc' = "done"
    /\ UNCHANGED <<written, read_pos, yielded, now, wait_start, launched, stdin, exc, caught,
                   regVars, decVars, redVars>>

\* The generator is blocked: in the read of a line that has not come, or in
\* proc.wait before its timeout.
Blocked ==
    \/ cpc = "read" /\ read_pos = Len(written) /\ stdout_open
    \/ cpc = "wait" /\ proc = "running" /\ now - wait_start < Timeout

Tick ==
    /\ Blocked
    /\ now < MaxTime
    /\ now' = now + 1
    /\ UNCHANGED <<cpc, proc, stdout_open, written, read_pos, yielded, wait_start,
                   launched, stdin, exc, caught, regVars, decVars, redVars>>

-----------------------------------------------------------------------------

RegInit ==
    /\ running_agents = <<>>
    /\ completed_agents = <<>>
    /\ background_results = <<>>
    /\ threads = <<>>
    /\ ctl = Idle
    /\ response = [kind |-> "none", spawn_id |-> "-", status |-> "-"]
    /\ listing = NoListing

DecInit ==
    /\ lines_in = <<>>
    /\ decoded = <<>>
    /\ response_text = PlainDocument("-")
    /\ claude_result = NoClaudeResult
    /\ timeout_choice = NoChoice

RedInit ==
    /\ events = <<>>
    /\ agent_result = ReduceResult(<<>>)
    /\ claude_call = NoClaudeCall

ColInit ==
    /\ cpc = "start"
    /\ proc = "none"
    /\ stdout_open = FALSE
    /\ written = <<>>
    /\ read_pos = 0
    /\ yielded = <<>>
    /\ now = 0
    /\ wait_start = 0
    /\ launched = 0
    /\ stdin = "none"
    /\ exc = "none"
    /\ caught = "none"

Init == RegInit /\ DecInit /\ RedInit /\ ColInit

\* The server: the control surface and the background threads.
Next ==
    \/ handle_spawn_claude
    \/ handle_spawn_codex
    \/ \E t \in 1..MaxSpawns : RunSpawn(t)
    \/ \E t \in 1..MaxSpawns : StoreResult(t)
    \/ \E t \in 1..MaxSpawns : StoreException(t)
    \/ \E t \in 1..MaxSpawns : FinallyRemove(t)
    \/ handle_get_result

Spec == Init /\ [][Next]_vars

\* The server with every tool of call_tool that touches the registry.
ServerNext ==
    \/ Next
    \/ handle_list_running
    \/ handle_get_context
    \/ UnknownTool

ServerSpec == Init /\ [][ServerNext]_vars

\* The server after a long service: the completed mapping already holds the
\* records of earlier agents, one fewer than the listing reports, so that
\* the next completions fill the listing and then exceed it.
HistoryId(i) == ToString(10000000 + i)

HistoryRecord(i) ==
    [spawn_id     |-> HistoryId(i),
     success      |-> TRUE,
     model        |-> "sonnet",
     completed_at |-> "utcnow",
     status       |-> "completed",
     error        |-> "none"]

History(k) == [i \in 1..k |-> HistoryRecord(i)]

HistoryLen == RecentLimit - 1

HistoryInit ==
    /\ running_agents = <<>>
    /\ completed_agents = History(HistoryLen)
    /\ background_results = History(HistoryLen)
    /\ threads = <<>>
    /\ ctl = Idle
    /\ response = [kind |-> "none", spawn_id |-> "-", status |-> "-"]
    /\ listing = NoListing

\* Claude agents are spawned, complete and are listed; the listing treats
\* the records of both kinds of agent alike.
ListNext ==
    \/ handle_spawn_claude
    \/ \E t \in 1..MaxSpawns : RunSpawn(t)
    \/ \E t \in 1..MaxSpawns : StoreResult(t)
    \/ \E t \in 1..MaxSpawns : StoreException(t)
    \/ \E t \in 1..MaxSpawns : FinallyRemove(t)
    \/ handle_list_running

ListInit == HistoryInit /\ DecInit /\ RedInit /\ ColInit

ListSpec == ListInit /\ [][ListNext]_vars

\* The spawn handler in its two steps, beside the background threads.
OrderNext ==
    \/ \E id \in SpawnIds : RegisterSpawn("claude", id)
    \/ \E id \in SpawnIds : RegisterSpawn("codex", id)
    \/ StartThread
    \/ \E t \in 1..MaxSpawns : RunSpawn(t)
    \/ \E t \in 1..MaxSpawns : StoreResult(t)
    \/ \E t \in 1..MaxSpawns : StoreException(t)
    \/ \E t \in 1..MaxSpawns : FinallyRemove(t)

OrderSpec == Init /\ [][OrderNext]_vars

\* The spawn handlers' choice of timeout for every request.
TimeoutNext ==
    \E kind \in {"claude", "codex"}, args \in SpawnArgs : ChooseTimeout(kind, args)

TimeoutSpec == Init /\ [][TimeoutNext]_vars

\* The operating system schedules every started thread.
FairSpec == Spec /\ \A t \in 1..MaxSpawns : WF_vars(Worker(t))

\* The decoder applied to lines of every syntax class.
DecoderNext == \E line \in DecoderLines : DecodeLine(line)

DecoderSpec == Init /\ [][DecoderNext]_vars

\* spawn_codex applied to every stream of at most MaxEvents events.
ReducerNext == \E line \in ReducerLines : CollectEvent(line)

ReducerSpec == Init /\ [][ReducerNext]_vars

\* Both reducers: spawn_codex on every stream, parse_claude_response on
\* every document.
OutcomeNext ==
    \/ ReducerNext
    \/ \E doc \in ClaudeDocuments : ParseResponse(doc)

OutcomeSpec == Init /\ [][OutcomeNext]_vars

\* One call of spawn_claude.
ClaudeNext ==
    \/ \E timeout \in ClaudeTimeouts : CallSpawnClaude(timeout)
    \/ BuildCommand
    \/ SubprocessRun
    \/ ClaudeReturned
    \/ ClaudeExcept

ClaudeSpec == Init /\ [][ClaudeNext]_vars

\* One call of the streaming collector and the worker it launches.
CollectorNext ==
    \/ Popen
    \/ WriteStdin
    \/ ReadLine
    \/ ReadFails
    \/ ReadEOF
    \/ ConsumerNext
    \/ ConsumerClose
    \/ WaitReturns
    \/ WaitTimesOut
    \/ HandleTimeout
    \/ HandleException
    \/ Finally
    \/ Tick
    \/ \E line \in CollectorLines : WorkerWrite(line)
    \/ WorkerCloseStdout
    \/ WorkerExit

CollectorSpec == Init /\ [][CollectorNext]_vars

-----------------------------------------------------------------------------
(* Claims about the registry.                                              *)

\* The ids spawn has registered so far.
Spawned == {threads[t].spawn_id : t \in 1..Len(threads)}

\* The completed mapping is to hold at most this many records. The server
\* defines no such number; the claim is stated for the smallest one.
RetentionN == 1

\* C1: in every reachable state each spawned id is in exactly one of the
\* running mapping and the completed mapping, never in both and never in
\* neither.
C1_ExactlyOneMapping ==
    \A id \in Spawned : Has(running_agents, id) # Has(completed_agents, id)

\* C2: every id registered as running is eventually removed from the running
\* mapping and present in the completed mapping, whatever the worker does
\* (normal exit, exception, or a worker that hangs until the timeout).
C2_EventuallyCompleted ==
    \A id \in SpawnIds :
        Has(running_agents, id) ~> (~Has(running_agents, id) /\ Has(completed_agents, id))

\* A worker that hung until its timeout has been promoted to completed and
\* is no longer running.
C2_Witness ==
    \E id \in SpawnIds :
        /\ Has(completed_agents, id)
        /\ Get(completed_agents, id).error = "timed_out"
        /\ ~Has(running_agents, id)

\* C4: the number of entries of the completed mapping never exceeds a fixed
\* maximum N.
C4_CompletedBounded == Len(completed_agents) <= RetentionN

\* C5: for an id returned by spawn, result(id) never reports "not_found".
C5_NeverNotFound ==
    response.status = "not_found" => response.spawn_id \notin Spawned

-----------------------------------------------------------------------------
(* Claims about the streaming collector.                                   *)

\* C3: a worker that has not exited within the timeout is killed and the
\* sequence ends with the timeout error; the collector does not go on
\* waiting, for end of output or for the exit, once the timeout has passed.
C3_NoWaitBeyondTimeout ==
    ~(cpc \in {"read", "wait"} /\ proc = "running" /\ now > Timeout)

\* The lines the decoder accepts, in the order the worker wrote them, as the
\* events it makes of them.
AcceptedEvents ==
    LET acc == SelectSeq(written, LAMBDA l : parse_codex_event(l).kind = "event")
    IN  [i \in 1..Len(acc) |-> parse_codex_event(acc[i]).event]

\* The worker exited by itself, no transport failure and no timeout
\* occurred, and the consumer read the sequence to its end.
WorkerExitedNormally ==
    /\ cpc = "done"
    /\ proc = "exited"
    /\ caught \notin {"OSError", "BrokenPipeError", "IOError", "TimeoutExpired", "GeneratorExit"}

\* C8: for a worker that exits normally the collector yields exactly the
\* events decoded from the accepted lines, in arrival order.
C8_YieldsAcceptedLines == WorkerExitedNormally => yielded = AcceptedEvents

\* C9: once the sequence has terminated the launched process is not
\* running, and the call launched at most one process.
C9_ProcessNotLeftRunning ==
    /\ launched <= 1
    /\ cpc = "done" => proc # "running"

\* The sequence ended through the except clause while the worker was still
\* running, and the finally clause killed it.
C9_Witness ==
    /\ cpc = "done"
    /\ caught = "BrokenPipeError"
    /\ proc = "killed"
    /\ launched = 1

TransportFailures == {"OSError", "BrokenPipeError", "IOError"}

\* C10: a transport failure never leaves the generator as an exception; the
\* sequence ends with one synthetic error event that carries its message.
C10_TransportFailureIsEvent ==
    cpc = "done" =>
        /\ exc = "none"
        /\ caught \in TransportFailures =>
              /\ Len(yielded) > 0
              /\ yielded[Len(yielded)] = SyntheticError(ExceptionMessage(caught))
              /\ Cardinality({i \in 1..Len(yielded) :
                     yielded[i] = SyntheticError(ExceptionMessage(caught))}) = 1

\* Reading failed after an event had been yielded: the sequence is that
\* event and then the synthetic error.
C10_Witness ==
    /\ cpc = "done"
    /\ caught = "IOError"
    /\ Len(yielded) = 2
    /\ yielded[2] = SyntheticError(ExceptionMessage("IOError"))

-----------------------------------------------------------------------------
(* Claims about the decoder and the reducer.                               *)

\* What the claim takes for a well-formed JSON line.
WellFormed(line) == line.syntax \notin {"malformed", "blank"}

\* C7: the decoder never raises; a line that is not well-formed JSON gives
\* no event, a well-formed one an event of its declared type, or of type
\* "unknown" when it declares none.
C7_DecoderTotal ==
    \A i \in 1..Len(decoded) :
        /\ decoded[i].kind # "raise"
        /\ ~WellFormed(lines_in[i]) => decoded[i].kind = "none"
        /\ WellFormed(lines_in[i]) =>
              /\ decoded[i].kind = "event"
              /\ decoded[i].event.type = EventType(lines_in[i])

NoErrorEvent(es) == \A i \in 1..Len(es) : es[i].type # "error"

\* The last agent message of the stream carries text.
FinalMessageWithText(es) ==
    LET msgs == {i \in 1..Len(es) : is_message(es[i])}
    IN  /\ msgs # {}
        /\ Truthy(es[CHOOSE i \in msgs : \A j \in msgs : j <= i].data.text)

TurnCompletedSeen(es) == \E i \in 1..Len(es) : es[i].type = "turn.completed"

CommandOutputCaptured(es) ==
    \E i \in 1..Len(es) : is_command(es[i]) /\ Truthy(es[i].data.aggregated_output)

\* C6: success holds exactly when the stream has no event of type "error"
\* and has a final message with text, or a turn-completed event together
\* with a captured non-empty command output.
C6_SuccessPolicy ==
    agent_result.success =
        (/\ NoErrorEvent(events)
         /\ \/ FinalMessageWithText(events)
            \/ TurnCompletedSeen(events) /\ CommandOutputCaptured(events))

-----------------------------------------------------------------------------
(* Claims about completion, registration and the lifecycle of a record.    *)

\* C11: completing an id that is not in the running mapping is a no-op on
\* the registry: the step that stores a thread's outcome leaves both
\* mappings and the stored outcomes as they were when the thread's id is not
\* running, so that a second completion of an id changes nothing.
C11_CompleteAbsentIsNoOp ==
    [][\A t \in 1..Len(threads) :
          ((StoreResult(t) \/ StoreException(t))
             /\ ~Has(running_agents, threads[t].spawn_id))
          => UNCHANGED <<running_agents, completed_agents, background_results>>]_vars

\* C12: every spawn registers an id that is present neither in the running
\* mapping nor in the completed mapping, so that no spawn overwrites a
\* record.
C12_SpawnRegistersFreshId ==
    [][Len(threads') > Len(threads) =>
          LET id == threads'[Len(threads')].spawn_id
          IN  ~Has(running_agents, id) /\ ~Has(completed_agents, id)]_vars

\* C13: once an id is in the completed mapping it stays there, it never
\* returns to the running mapping, and its stored outcome is never changed.
C13_CompletedIsTerminal ==
    [][\A id \in SpawnIds :
          Has(completed_agents, id) =>
              /\ Has(completed_agents', id)
              /\ Get(completed_agents', id) = Get(completed_agents, id)
              /\ ~Has(running_agents, id) => ~Has(running_agents', id)]_vars

\* C20: a completed record is marked "failed" exactly when its success flag
\* is false and "completed" exactly when it is true.
C20_StateFromSuccess ==
    \A i \in 1..Len(completed_agents) :
        completed_agents[i].status =
            (IF completed_agents[i].success THEN "completed" ELSE "failed")

-----------------------------------------------------------------------------
(* Claims about the control surface.                                       *)

\* C14: no id appears both among the running agents and among the recently
\* completed agents of one list response.
C14_ListIsPointInTime ==
    response.kind = "list" =>
        \A i \in 1..Len(listing.agents), j \in 1..Len(listing.recent) :
            listing.agents[i] # listing.recent[j]

\* C15: a worker thread that removes its id from the running mapping while
\* list or result reads it never makes the read fail: no call ends with a
\* concurrent-modification error or a missing-key error.
C15_ReadsNeverFail ==
    ~(response.kind = "error" /\ response.status \in {"RuntimeError", "KeyError"})

\* The failures of a worker's execution path: the spawn function raised, the
\* worker exited with an error code, the worker timed out.
WorkerFailed(r) == r.raised \/ r.error \in {"exit_code", "timed_out"}

\* The responses call_tool can return: a spawn acknowledgement, a stored
\* outcome, a status, a list, a context preview, the unknown-tool text, the
\* error document.
ResponseKinds ==
    {"none", "spawned", "outcome", "status", "list", "context", "text", "error"}

ControlLoopFree ==
    /\ ctl.pc = "idle" =>
          /\ ENABLED handle_get_result
          /\ ENABLED handle_list_running
          /\ Len(threads) < MaxSpawns =>
                ENABLED handle_spawn_claude /\ ENABLED handle_spawn_codex
    /\ ctl.pc \in {"check_running", "read_running"} => ENABLED handle_get_result
    /\ ctl.pc \in {"list_iter", "list_recent"} => ENABLED handle_list_running

\* C18: the spawn response carries the new id with status "running" and is
\* produced while the worker has not finished; while a worker is executing
\* its call the control loop can answer spawn, list and result, and every
\* other worker can take its next step.
C18_SpawnDoesNotWait ==
    /\ [](\A t \in 1..Len(threads) :
             threads[t].pc = "run" =>
                 /\ ControlLoopFree
                 /\ \A u \in 1..Len(threads) :
                       (u # t /\ threads[u].pc # "done") => ENABLED Worker(u))
    /\ [][Len(threads') > Len(threads) =>
             /\ response' = [kind |-> "spawned",
                             spawn_id |-> threads'[Len(threads')].spawn_id,
                             status |-> "running"]
             /\ threads'[Len(threads')].pc = "run"]_vars

\* The control loop has answered a second spawn and is inside get_result
\* while the worker of the first spawn is still executing its call.
C18_Witness ==
    /\ Len(threads) = 2
    /\ threads[1].pc = "run"
    /\ threads[2].pc = "done"
    /\ ctl.pc = "read_running"

\* What the claim has result(id) answer in a registry state.
ExpectedStatus(id) ==
    IF Has(completed_agents, id) THEN Get(completed_agents, id).status
    ELSE IF Has(running_agents, id) THEN "running"
    ELSE "not_found"

\* C19: result(id) answers with the stored outcome when id is in the
\* completed mapping, whether or not it is also running; otherwise with
\* status "running" when id is in the running mapping; otherwise with status
\* "not_found". Each answering step of the handler is compared with the
\* registry state it reads, which it does not change.
C19_ResultByCases ==
    [][\A id \in SpawnIds :
          /\ (GetResultCheckCompleted(id) /\ Has(completed_agents, id))
                => response'.kind = "outcome" /\ response'.status = ExpectedStatus(id)
          /\ (GetResultCheckRunning /\ ctl.spawn_id = id /\ ctl'.pc = "idle"
                /\ ~Has(completed_agents, id))
                => response'.kind = "status" /\ response'.status = ExpectedStatus(id)
          /\ (GetResultReadRunning /\ ctl.spawn_id = id /\ Has(running_agents, id)
                /\ ~Has(completed_agents, id))
                => response'.kind = "status" /\ response'.status = ExpectedStatus(id)]_vars

-----------------------------------------------------------------------------
(* Claims about the outcome of a failed call.                              *)

\* C16: an outcome with success false has its error field populated, for
\* the streaming reducer on every event sequence (the empty one included)
\* and for parse_claude_response on every document it parses.
C16_FailureCarriesError ==
    /\ ~agent_result.success => agent_result.error # NoneMsg
    /\ (claude_result.kind = "result" /\ ~claude_result.success)
          => claude_result.error # NoneStr

-----------------------------------------------------------------------------
(* Claims about what the streaming reducer keeps of a stream.              *)

\* The greatest and the least index of a non-empty set of indices.
LastOf(S) == CHOOSE i \in S : \A j \in S : j <= i

FirstOf(S) == CHOOSE i \in S : \A j \in S : i <= j

ErrorEvents(es) == {i \in 1..Len(es) : es[i].type = "error"}

\* C21: for every event sequence with more than one error event the error
\* of the outcome is the payload of the first error event, not of a later
\* one.
C21_FirstErrorKept ==
    Cardinality(ErrorEvents(events)) > 1 =>
        agent_result.error = ErrorMessage(events[FirstOf(ErrorEvents(events))])

Messages(es) == {i \in 1..Len(es) : is_message(es[i])}

MessagesWithText(es) == {i \in Messages(es) : Truthy(es[i].data.text)}

\* The usage payload of the last turn-completed event, empty when there is
\* none.
LastUsage(es) ==
    LET tc == {i \in 1..Len(es) : es[i].type = "turn.completed"}
    IN  IF tc = {} \/ es[LastOf(tc)].data.usage = Absent
        THEN "{}"
        ELSE es[LastOf(tc)].data.usage

\* C22: for every event sequence with at least one agent message with
\* non-empty text, the text of the outcome is the text of the last such
\* message and its usage is the usage payload of the last turn-completed
\* event.
C22_LastMessageWithText ==
    MessagesWithText(events) # {} =>
        /\ agent_result.text = events[LastOf(MessagesWithText(events))].data.text
        /\ agent_result.usage = LastUsage(events)

\* C22 as amended: for every event sequence whose last agent message has
\* non-empty text, the text of the outcome is the text of that message and
\* its usage is the usage payload of the last turn-completed event; without
\* an error event the outcome is a success.
C22_LastMessageKept ==
    FinalMessageWithText(events) =>
        /\ agent_result.text = events[LastOf(Messages(events))].data.text
        /\ agent_result.usage = LastUsage(events)
        /\ NoErrorEvent(events) => agent_result.success

\* Two messages and then turn.completed: the later text and the usage
\* payload are kept and the outcome is a success.
C22_Witness ==
    /\ Len(events) = 3
    /\ is_message(events[1]) /\ events[1].data.text = Str("done", 4)
    /\ is_message(events[2]) /\ events[2].data.text = Str("working", 7)
    /\ events[3].type = "turn.completed"
    /\ agent_result.success
    /\ agent_result.text = Str("working", 7)
    /\ agent_result.usage = "usage-1"

\* The command outputs the reducer captures: the non-empty ones.
CapturedOutputs(es) ==
    {i \in 1..Len(es) : ~is_message(es[i]) /\ is_command(es[i])
                          /\ Truthy(es[i].data.aggregated_output)}

\* C23: when the sequence has no final message but a captured command
\* output, the text of the outcome is the most recently captured output cut
\* to the first 5000 characters, and is never longer than that.
C23_FallbackTextTruncated ==
    (Messages(events) = {} /\ CapturedOutputs(events) # {}) =>
        LET out == events[LastOf(CapturedOutputs(events))].data.aggregated_output
        IN  /\ agent_result.text.s = out.s
            /\ agent_result.text.len = (IF out.len > TruncateLen THEN TruncateLen ELSE out.len)
            /\ agent_result.text.len <= TruncateLen

\* A short output and then one of 5001 characters: the text is the first
\* 5000 characters of the later one.
C23_Witness ==
    /\ Len(events) = 2
    /\ events[1].data.aggregated_output = Str("ok", 2)
    /\ events[2].data.aggregated_output = Str("log", 5001)
    /\ agent_result.text = Str("log", 5000)

-----------------------------------------------------------------------------
(* Claims about the single-document variant.                               *)

\* C24: the outcome of a parsed document is a success exactly when the
\* document has type "result" and subtype "success"; when it is not a
\* success its error is the document's own result field; text that is not
\* JSON gives success false with the parse-error message, not an exception.
C24_DocumentOutcome ==
    /\ response_text.syntax = "object" =>
          /\ claude_result.kind = "result"
          /\ claude_result.success =
                (response_text.type = "result" /\ response_text.subtype = "success")
          /\ ~claude_result.success => claude_result.error = response_text.result
    /\ response_text.syntax \in {"malformed", "blank", "empty"} =>
          /\ claude_result.kind = "result"
          /\ ~claude_result.success
          /\ claude_result.error = ParseFailure

\* C25: from the launch on, spawn_claude never raises to its caller; a
\* timeout returns success false with the error that names the timeout, and
\* a launch failure and a non-zero exit with empty output each return
\* success false with a non-empty error.
C25_ClaudeFailureIsOutcome ==
    /\ claude_call.pc # "raised"
    /\ claude_call.pc = "done" =>
          /\ claude_call.exc = "TimeoutExpired" =>
                /\ ~claude_call.result.success
                /\ claude_call.result.error = TimedOutMessage(claude_call.timeout)
          /\ claude_call.exc \in LaunchFailures =>
                /\ ~claude_call.result.success
                /\ Truthy(claude_call.result.error)
          /\ (claude_call.exc = "none" /\ claude_call.returncode # 0
                /\ claude_call.stdout.syntax = "empty") =>
                /\ ~claude_call.result.success
                /\ Truthy(claude_call.result.error)

\* A call with timeout 600 has timed out and returned the failure that names
\* 600 seconds.
C25_Witness ==
    /\ claude_call.pc = "done"
    /\ claude_call.exc = "TimeoutExpired"
    /\ claude_call.timeout = 600
    /\ ~claude_call.result.success
    /\ claude_call.result.error = Str("Agent timed out after 600 seconds", 33)

-----------------------------------------------------------------------------
(* Claims about the records of the registry.                               *)

\* C26: no record of the running mapping carries a completion timestamp and
\* is in a state other than running; every record of the completed mapping
\* carries one and is not in the state running.
C26_CompletedAtIffNotRunning ==
    /\ \A i \in 1..Len(running_agents) :
          /\ "completed_at" \notin DOMAIN running_agents[i]
          /\ running_agents[i].status = "running"
    /\ \A i \in 1..Len(completed_agents) :
          /\ "completed_at" \in DOMAIN completed_agents[i]
          /\ completed_agents[i].status # "running"

\* One agent is still running and another has completed.
C26_Witness ==
    /\ Len(running_agents) = 1
    /\ Len(completed_agents) = 1
    /\ running_agents[1].spawn_id # completed_agents[1].spawn_id
    /\ completed_agents[1].completed_at = "utcnow"

\* The keys of a dict in insertion order.
KeysSeq(d) == [i \in 1..Len(d) |-> d[i].spawn_id]

\* C29: when a completion inserts a new id, the completed mapping afterwards
\* holds exactly the N most recently inserted ids: the oldest entries are
\* the ones evicted.
C29_EvictsOldestFirst ==
    [][\A t \in 1..Len(threads) :
          ((StoreResult(t) \/ StoreException(t))
             /\ ~Has(completed_agents, threads[t].spawn_id))
          => KeysSeq(completed_agents') =
                LastN(Append(KeysSeq(completed_agents), threads[t].spawn_id), RetentionN)]_vars

\* C30: list, result and the context preview leave the running and the
\* completed mapping unchanged; an id enters the running mapping only by a
\* spawn, the completed mapping changes only by a worker's promotion, an id
\* leaves the running mapping only by that promotion, and no record of the
\* completed mapping is ever deleted.
C30_ReadsLeaveRegistry ==
    [][/\ (handle_get_result \/ handle_list_running \/ handle_get_context \/ UnknownTool)
             => UNCHANGED <<running_agents, completed_agents, background_results>>
       /\ (\E id \in SpawnIds : Has(running_agents', id) /\ ~Has(running_agents, id))
             => (Len(threads') = Len(threads) + 1 /\ response'.kind = "spawned")
       /\ completed_agents' # completed_agents
             => \E t \in 1..Len(threads) : StoreResult(t) \/ StoreException(t)
       /\ (\E id \in SpawnIds : Has(running_agents, id) /\ ~Has(running_agents', id))
             => \E t \in 1..Len(threads) : FinallyRemove(t)
       /\ \A id \in SpawnIds : Has(completed_agents, id) => Has(completed_agents', id)]_vars

\* result has answered with a stored outcome and the record is still in the
\* completed mapping, beside a running agent.
C30_Witness ==
    /\ response.kind = "outcome"
    /\ Has(completed_agents, response.spawn_id)
    /\ Len(running_agents) > 0

-----------------------------------------------------------------------------
(* Claims about the listing.                                               *)

\* C31: a list response reports every id that is in the running mapping, a
\* running count equal to the number of running entries it reports, and the
\* most recently inserted completed ids, at most 100 of them, in insertion
\* order.
C31_ListIsBounded ==
    [][ListRecent =>
         LET keys == KeysSeq(completed_agents)
             r    == listing'.recent
         IN  /\ \A id \in Keys(running_agents) :
                   \E i \in 1..Len(listing'.agents) : listing'.agents[i] = id
             /\ listing'.count = Len(listing'.agents)
             /\ Len(r) = (IF Len(keys) > RecentLimit THEN RecentLimit ELSE Len(keys))
             /\ \A i \in 1..Len(r) : r[i] = keys[Len(keys) - Len(r) + i]]_vars

\* A list response that reports a running agent and leaves out the oldest
\* completed id.
C31_Witness ==
    /\ response.kind = "list"
    /\ listing.count > 0
    /\ Len(listing.recent) = RecentLimit
    /\ listing.recent[1] # completed_agents[1].spawn_id

-----------------------------------------------------------------------------
(* Claims about which events the reducer counts.                           *)

\* The events of type "item.completed" whose item is a command execution
\* with output.
CompletedCommandOutputs(es) ==
    {i \in 1..Len(es) : /\ es[i].type = "item.completed"
                        /\ es[i].data.item_type = "command_execution"
                        /\ Truthy(es[i].data.aggregated_output)}

\* C32: a command output counts towards success and the fallback text only
\* when it comes from an event of type "item.completed" whose item type is
\* "command_execution": without message and error event, the outcome
\* succeeds exactly when a turn completed and such an event was seen, and
\* its text is the output of the last such event, empty when there is none.
C32_OnlyCompletedCommandsCount ==
    (Messages(events) = {} /\ ErrorEvents(events) = {}) =>
        LET done == CompletedCommandOutputs(events)
            turn == \E i \in 1..Len(events) : events[i].type = "turn.completed"
        IN  /\ agent_result.success = (turn /\ done # {})
            /\ agent_result.text =
                  (IF done = {} THEN EmptyStr
                   ELSE Prefix(events[LastOf(done)].data.aggregated_output, TruncateLen))

-----------------------------------------------------------------------------
(* Claims about the record of a streaming agent.                           *)

\* C33: the record stored for a Codex agent spawned through the control
\* surface is built from the value spawn_codex returned for the worker's
\* event stream: it is stored on the normal path with status "completed",
\* never from an exception of the call itself.
C33_CodexRecordFromReducer ==
    \A i \in 1..Len(completed_agents) :
        completed_agents[i].model = "codex" =>
            /\ completed_agents[i].status = "completed"
            /\ completed_agents[i].error # "TypeError"

-----------------------------------------------------------------------------
(* Claims about the order of the collector's steps.                        *)

\* The error events the collector made itself: their data holds a message
\* and no type.
SyntheticEvents(es) ==
    {i \in 1..Len(es) : es[i].type = "error" /\ es[i].data.type = Absent}

\* C34: the input channel of the worker is closed before the first line of
\* its output is read, no line is read once the process has been killed,
\* and the sequence holds at most one synthetic error event, which is then
\* its last event.
C34_CollectorOrder ==
    /\ [](read_pos > 0 => stdin = "closed")
    /\ [][proc = "killed" => read_pos' = read_pos]_vars
    /\ [](/\ Cardinality(SyntheticEvents(yielded)) <= 1
          /\ SyntheticEvents(yielded) # {} =>
                /\ Len(yielded) \in SyntheticEvents(yielded)
                /\ cpc \in {"finally", "done"})
    /\ [][SyntheticEvents(yielded) # {} => yielded' = yielded]_vars

\* The worker wrote an event, closed its output and went on running: the
\* collector read the event, timed out in the wait, killed the worker and
\* ended the sequence with the timeout error.
C34_Witness ==
    /\ cpc = "done"
    /\ caught = "TimeoutExpired"
    /\ proc = "killed"
    /\ stdin = "closed"
    /\ read_pos > 0
    /\ Len(yielded) = 2
    /\ SyntheticEvents(yielded) = {2}

-----------------------------------------------------------------------------
(* Claims about the order of registration and completion.                  *)

\* The threads that carry the id of thread t.
SameId(t) == {u \in 1..Len(threads) : threads[u].spawn_id = threads[t].spawn_id}

\* C35: the id is in the running mapping before its thread is started: a
\* thread that has not reached its last step and shares its id with no other
\* thread finds its id registered, and when every started thread has ended
\* and no spawn is under way, no id is left in the running mapping.
C35_RegisteredBeforeCompletion ==
    /\ \A t \in 1..Len(threads) :
          (threads[t].pc # "done" /\ SameId(t) = {t})
             => Has(running_agents, threads[t].spawn_id)
    /\ (ctl.pc = "idle" /\ \A t \in 1..Len(threads) : threads[t].pc = "done")
          => running_agents = <<>>

\* Two agents were registered and started one after the other, and both
\* have completed and left the running mapping.
C35_Witness ==
    /\ Len(threads) = 2
    /\ threads[1].spawn_id # threads[2].spawn_id
    /\ \A t \in 1..2 : threads[t].pc = "done"
    /\ Len(completed_agents) = 2
    /\ running_agents = <<>>

-----------------------------------------------------------------------------
(* Claims about the frame of a completion.                                 *)

\* The entry of id is the same in dict d and in dict e.
SameEntry(d, e, id) ==
    /\ Has(d, id) = Has(e, id)
    /\ Has(d, id) => Get(d, id) = Get(e, id)

\* C36: a step of the worker thread of id A (store, store after an
\* exception, removal from running) leaves the running, the completed and
\* the stored record of every other id B as they were.
C36_CompletionTouchesOwnId ==
    [][\A t \in 1..Len(threads) :
          (StoreResult(t) \/ StoreException(t) \/ FinallyRemove(t)) =>
              \A id \in SpawnIds \ {threads[t].spawn_id} :
                  /\ SameEntry(running_agents, running_agents', id)
                  /\ SameEntry(completed_agents, completed_agents', id)
                  /\ SameEntry(background_results, background_results', id)]_vars

\* One agent has completed and left the running mapping while another,
\* with another id, is still registered as running.
C36_Witness ==
    /\ Len(threads) = 2
    /\ threads[1].spawn_id # threads[2].spawn_id
    /\ \E t \in 1..2 :
          /\ threads[t].pc = "done"
          /\ Has(completed_agents, threads[t].spawn_id)
          /\ ~Has(running_agents, threads[t].spawn_id)
          /\ Has(running_agents, threads[3 - t].spawn_id)

-----------------------------------------------------------------------------
(* Claims about the spawn log.                                             *)

\* The entries of one kind in the log of the call.
LogEntries(kind) ==
    {i \in 1..Len(claude_call.log) : claude_call.log[i].entry = kind}

\* C37: a call of spawn_claude that has logged a spawn start and has ended,
\* on whatever path, has logged exactly one completion, and a call that
\* returned has logged the success flag of the outcome it returned.
C37_StartHasOneCompletion ==
    (claude_call.pc \in {"done", "raised", "raised_unlaunched"} /\ LogEntries("start") # {}) =>
        /\ Cardinality(LogEntries("complete")) = 1
        /\ claude_call.pc = "done" =>
              claude_call.log[Len(claude_call.log)].success = claude_call.result.success

-----------------------------------------------------------------------------
(* Claims about the collector's error event in the reducer.                *)

\* C38: when the collector has ended its sequence with a synthetic error
\* event, the outcome the reducer computes from the sequence has success
\* false and the message of that event as its error, whatever was yielded
\* before it.
C38_SyntheticErrorDecides ==
    (cpc = "done" /\ SyntheticEvents(yielded) # {}) =>
        /\ ~ReduceResult(yielded).success
        /\ ReduceResult(yielded).error = ErrorMessage(yielded[Len(yielded)])
        /\ ReduceResult(yielded).error # NoneMsg

\* The worker wrote its final message, closed its output and went on
\* running; the sequence is the message and then the timeout error.
C38_Witness ==
    /\ cpc = "done"
    /\ caught = "TimeoutExpired"
    /\ Len(yielded) = 2
    /\ is_message(yielded[1])
    /\ yielded[2] = SyntheticError(TimeoutMessage)
    /\ ~ReduceResult(yielded).success

-----------------------------------------------------------------------------
(* Claims about the timeout of a spawn.                                    *)

\* The characters hold "test" in whatever case.
HasTestAnyCase(chars) ==
    \E i \in 1..Len(chars) :
        /\ i + 3 <= Len(chars)
        /\ chars[i] \in {"t", "T"}
        /\ chars[i + 1] \in {"e", "E"}
        /\ chars[i + 2] \in {"s", "S"}
        /\ chars[i + 3] \in {"t", "T"}

-----------------------------------------------------------------------------
(* parser.extract_final_message and parser.extract_usage, and the claim    *)
(* that they agree with the reducer.                                       *)

\* for event in reversed(events): if event.is_message: return event.text;
\* return None
extract_final_message(es) ==
    LET msgs == {i \in 1..Len(es) : is_message(es[i])}
    IN  IF msgs = {} THEN NoneStr ELSE text(es[LastOf(msgs)])

\* for event in events: if event.type == "turn.completed":
\* return event.data.get("usage", {}); return {}
extract_usage(es) ==
    LET turns == {i \in 1..Len(es) : es[i].type = "turn.completed"}
    IN  IF turns = {} \/ es[FirstOf(turns)].data.usage = Absent
        THEN "{}"
        ELSE es[FirstOf(turns)].data.usage

\* None read as the empty text.
OrEmpty(x) == IF Truthy(x) THEN x ELSE EmptyStr

\* C40: on every event list extract_final_message gives the final message
\* text the reducer uses (no text and the empty text taken as the same) and
\* extract_usage gives the usage payload the reducer reports, also when the
\* list holds several turn-completed events.
C40_HelpersAgreeWithReducer ==
    /\ OrEmpty(extract_final_message(events)) = ReduceEvents(ReducerStart, events).final_text
    /\ extract_usage(events) = agent_result.usage

====
